---- MODULE Spec2Model ----
(***************************************************************************)
(* docker-dns: the caching resolver (src/src/resolver.rs, DockerResolver)  *)
(* as a state machine.  Callers are tasks running resolve(domain); the     *)
(* cache is guarded by tokio's fair (FIFO, write-preferring) RwLock; the   *)
(* provider is the environment: it holds an inventory and each call of     *)
(* list_containers_network_info ends in a result, an error, or is dropped  *)
(* by the refresh timeout.  Time is a counter every task may read.         *)
(* A second specification, SpecQuery, follows one query from the container *)
(* list (src/src/docker_client.rs) through a refresh to the response built *)
(* by CustomHandler (src/src/custom_handler.rs).  A third, SpecLive, is   *)
(* the resolver under weak fairness of the tasks, the clock and the timer. *)
(***************************************************************************)
EXTENDS Integers, Sequences, FiniteSets, TLC

\* ---------------------------------------------------------------- bounds
NumTasks == 2
MaxTime == 2
MaxFetches == 2
\* the addresses of the largest container, and the records of the longest
\* candidate list handed to apply_size_limit
MaxAddresses == 29

\* custom_handler.rs
DNS_UDP_MAX_SIZE == 512
DNS_OVERHEAD_ESTIMATE == 50

Tasks == 1..NumTasks
NoTask == 0

\* Option<T>: None is the empty sequence, Some(x) the one-element sequence.
None == << >>
Some(x) == << x >>
Unwrap(o) == o[1]

\* ---------------------------------------------------------------- data
\* DockerResolverConfig: three durations (seconds on the command line, no
\* validation: zero and miss_timeout > hit_timeout are accepted).
DockerResolverConfig(h, m, r) ==
    [hit_timeout |-> h, miss_timeout |-> m, refresh_timeout |-> r]

Configs ==
    { DockerResolverConfig(2, 1, 1),
      DockerResolverConfig(0, 2, 1),
      DockerResolverConfig(0, 0, 1) }

\* A String is the sequence of its characters.
\* NetworkInfo: names, IPv4 list, IPv6 list (addresses are small numbers).
NetworkInfo(names, v4, v6) ==
    [names |-> names, ipv4_addresses |-> v4, ipv6_addresses |-> v6]

\* The inventories the provider can hold.  The last one lists "web" in two
\* records (a name collision), and a container named "Web".
Inventories ==
    { << >>,
      << NetworkInfo(<< <<"w","e","b">> >>, <<1>>, << >>) >>,
      << NetworkInfo(<< <<"w","e","b">>, <<"W","e","b">> >>, <<1, 2>>, <<6>>),
         NetworkInfo(<< <<"w","e","b">> >>, <<3>>, << >>) >> }

\* The names callers ask for.
Domains == { <<"w","e","b">>, <<"W","e","b">> }

\* DnsResponse::new; arc is the identity of the Arc allocation within one
\* build: the index of the record it was made for.
DnsResponse(v4, v6, arc) ==
    [ipv4_addresses |-> v4, ipv6_addresses |-> v6, arc |-> arc]

\* HashMap<String, Arc<DnsResponse>>: a function on its key set.
EmptyMap == [k \in {} |-> None]
\* variant of MapInsert: an existing key keeps its entry (entry().or_insert)
MapInsert_KeepFirst(m, k, v) ==
    IF k \in DOMAIN m THEN m
    ELSE [x \in (DOMAIN m) \cup {k} |-> IF x = k THEN v ELSE m[x]]
MapInsert(m, k, v) ==
    [x \in (DOMAIN m) \cup {k} |-> IF x = k THEN v ELSE m[x]]
MapGet(m, k) == IF k \in DOMAIN m THEN Some(m[k]) ELSE None

\* CachedNetworkData::new
CachedNetworkData == [mappings |-> EmptyMap, last_refresh |-> None]

VARIABLES
    now,         \* the clock Instant::now() reads
    config,      \* DockerResolver.config
    cache,       \* DockerResolver.cache: [mappings, last_refresh]
    writer,      \* the task holding the write lease, or NoTask
    queue,       \* the lock's FIFO of waiting tasks
    call,        \* per task: the resolve call it is in
    call_count,  \* invocations of list_containers_network_info so far
    fetched,     \* the inventory the latest successful fetch returned
    any_failed,  \* some fetch has ended in an error or a timeout
    obs,         \* per task: what an observer of its call in progress has recorded
    provider,    \* DockerResolver.provider: the NetworkInfoProvider and what it lists
    handler,     \* the CustomHandler: suffix and ttl
    request,     \* the Request handed to the handler
    response,    \* the response the handler built for it, or None
    events       \* what the handler has done for the request so far, in order

vars == << now, config, cache, writer, queue, call, call_count, fetched,
           any_failed, obs, provider, handler, request, response, events >>

\* the variables of the query path, which the resolver's own steps leave alone
query_vars == << provider, handler, request, response, events >>

\* ---------------------------------------------------------------- helpers
\* variant of IsOlderThan: >= for >, a cache exactly `duration` old is older
IsOlderThan_Inclusive(c, duration) ==
    IF c.last_refresh = None THEN TRUE
    ELSE now - Unwrap(c.last_refresh) >= duration

\* CachedNetworkData::is_older_than
IsOlderThan(c, duration) ==
    IF c.last_refresh = None THEN TRUE
    ELSE now - Unwrap(c.last_refresh) > duration

\* variant of RecheckFresh: the re-check only asks whether a refresh ever happened
RecheckFresh_IgnoresAge(c) == c.last_refresh # None

\* the re-check of refresh_cache: a refresh raced ahead
RecheckFresh(c) ==
    /\ c.last_refresh # None
    /\ now - Unwrap(c.last_refresh) < config.miss_timeout

\* variant of InsertNames: every name gets a response value of its own
RECURSIVE InsertNames_OwnResponse(_, _, _)
InsertNames_OwnResponse(m, names, shared) ==
    IF names = << >> THEN m
    ELSE InsertNames_OwnResponse(
            MapInsert(m, Head(names), [shared EXCEPT !.arc = 100 * @ + Len(names)]),
            Tail(names), shared)

\* the inner loop of fetch_and_build_mappings: every name of one record gets
\* the record's shared response
RECURSIVE InsertNames(_, _, _)
InsertNames(m, names, shared) ==
    IF names = << >> THEN m
    ELSE InsertNames(MapInsert(m, Head(names), shared), Tail(names), shared)

\* the outer loop of fetch_and_build_mappings, from record i on
RECURSIVE BuildFrom(_, _, _)
BuildFrom(m, infos, i) ==
    IF i > Len(infos) THEN m
    ELSE BuildFrom(
            InsertNames(m, infos[i].names,
                DnsResponse(infos[i].ipv4_addresses, infos[i].ipv6_addresses, i)),
            infos, i + 1)

\* fetch_and_build_mappings on the provider's answer
BuildMappings(network_infos) == BuildFrom(EmptyMap, network_infos, 1)

\* variant of NeedsRefresh: the arm for a miss older than miss_timeout is missing
NeedsRefresh_NoMissArm(cached_result, hit_timeout_exceeded, miss_timeout_exceeded) ==
    IF cached_result # None /\ ~hit_timeout_exceeded THEN FALSE
    ELSE hit_timeout_exceeded

\* variant of NeedsRefresh: miss_timeout is tested before the hit arm
NeedsRefresh_MissFirst(cached_result, hit_timeout_exceeded, miss_timeout_exceeded) ==
    IF miss_timeout_exceeded THEN TRUE
    ELSE IF cached_result # None /\ ~hit_timeout_exceeded THEN FALSE
    ELSE hit_timeout_exceeded

\* the match of resolve_async: TRUE when the call goes on to refresh
NeedsRefresh(cached_result, hit_timeout_exceeded, miss_timeout_exceeded) ==
    IF cached_result # None /\ ~hit_timeout_exceeded THEN FALSE
    ELSE IF hit_timeout_exceeded THEN TRUE
    ELSE IF ~miss_timeout_exceeded THEN FALSE
    ELSE TRUE

\* tokio's RwLock: waiters are served in FIFO order.  A read lease is held over
\* code without an await (a lookup and two clock reads), so taking it, reading
\* and dropping it is one step; a write lease is held across the fetch.
\* variant of CanRead: a read lease is granted while a task holds the write lease
CanRead_IgnoresWriter(t) == queue # << >> /\ Head(queue) = t
CanRead(t) == /\ queue # << >> /\ Head(queue) = t
              /\ writer = NoTask
\* variant of CanWrite: the write lease is granted while another task holds it
CanWrite_NoExclusion(t) == queue # << >> /\ Head(queue) = t
CanWrite(t) == /\ queue # << >> /\ Head(queue) = t
               /\ writer = NoTask

InCall(t) == call[t].pc \notin {"idle", "done"}

\* the calls in progress that have not reached the provider yet
Unfetched == {u \in Tasks : call[u].pc \in {"r1_wait", "w_wait"}}

\* a call's locals: domain (the argument), first (how read_cache classified the
\* cache), refresh (how refresh_cache ended), started (when its fetch began)
IdleCall == [pc |-> "idle", domain |-> << >>, result |-> None,
             first |-> "-", refresh |-> "-", started |-> 0]
\* resolve has returned: the caller holds the result; the locals are gone (the
\* classification of the first read is kept for the record)
Returned(first, result) ==
    [IdleCall EXCEPT !.pc = "done", !.first = first, !.result = result]
\* what an observer holds of a call: c0 (call_count when it began), solo (no
\* other call ran beside it), pre (the cache as its fetch found it), swapped
\* (another call's refresh replaced the mapping after its own fetch failed),
\* leases (write leases the call has taken), fetches (provider invocations the
\* call has made)
IdleObs == [c0 |-> 0, solo |-> FALSE, swapped |-> FALSE, pre |-> None,
            leases |-> 0, fetches |-> 0]

\* ---------------------------------------------------------------- Init
Init ==
    /\ now = 0
    /\ config \in Configs
    /\ cache = CachedNetworkData
    /\ writer = NoTask
    /\ queue = << >>
    /\ call = [t \in Tasks |-> IdleCall]
    /\ call_count = 0
    /\ fetched = None
    /\ any_failed = FALSE
    /\ obs = [t \in Tasks |-> IdleObs]
    /\ provider = None
    /\ handler = None
    /\ request = None
    /\ response = None
    /\ events = << >>

\* ---------------------------------------------------------------- actions
\* resolve(domain) is called by a caller that is in no call (its previous call,
\* if any, has returned): resolve_async asks read_cache for a read lease.
\* A call is admitted while the provider can still be reached MaxFetches times.
Resolve(t, domain) ==
    /\ call[t].pc \in {"idle", "done"}
    /\ call_count + Cardinality(Unfetched) < MaxFetches
    /\ call' = [call EXCEPT ![t] = [IdleCall EXCEPT !.pc = "r1_wait", !.domain = domain]]
    /\ queue' = Append(queue, t)
    /\ obs' = [u \in Tasks |->
                 IF u = t
                 THEN [IdleObs EXCEPT !.c0 = call_count,
                                      !.solo = \A v \in Tasks \ {t} : ~InCall(v)]
                 ELSE IF InCall(u) THEN [obs[u] EXCEPT !.solo = FALSE]
                 ELSE obs[u]]
    /\ UNCHANGED << now, config, cache, writer, call_count, fetched, any_failed >>
    /\ UNCHANGED query_vars

\* read_cache under the read lease, then the match of resolve_async: return
\* the cached entry or none, or go on to refresh_cache and ask for the write lease
ReadCache(t) ==
    /\ call[t].pc = "r1_wait"
    /\ CanRead(t)
    /\ LET cached_result == MapGet(cache.mappings, call[t].domain)
           hit_timeout_exceeded == IsOlderThan(cache, config.hit_timeout)
           miss_timeout_exceeded == IsOlderThan(cache, config.miss_timeout)
           first == IF cached_result # None
                    THEN (IF hit_timeout_exceeded THEN "found_stale" ELSE "found")
                    ELSE (IF hit_timeout_exceeded THEN "missing_stale"
                          ELSE IF miss_timeout_exceeded THEN "missing_old"
                          ELSE "missing")
       IN IF NeedsRefresh(cached_result, hit_timeout_exceeded, miss_timeout_exceeded)
          THEN /\ call' = [call EXCEPT ![t].pc = "w_wait", ![t].first = first]
               /\ queue' = Append(Tail(queue), t)
          ELSE /\ call' = [call EXCEPT ![t] = Returned(first, cached_result)]
               /\ queue' = Tail(queue)
    /\ obs' = [obs EXCEPT ![t] = IF call'[t].pc = "done" THEN IdleObs ELSE @]
    /\ UNCHANGED << now, config, cache, writer, call_count, fetched,
                    any_failed >>
    /\ UNCHANGED query_vars

\* variant of LeaveRefresh: the write lease is kept when refresh_cache returns Err
LeaveRefresh_KeepsLeaseOnErr(t, how, q) ==
    /\ call' = [call EXCEPT ![t].pc = "r2_wait", ![t].refresh = how,
                            ![t].started = 0]
    /\ writer' = IF writer = t /\ how \notin {"error", "timeout"} THEN NoTask ELSE writer
    /\ queue' = Append(q, t)

\* refresh_cache returns (Ok or Err): the write lease is dropped and
\* get_refreshed_cache_entry asks for a read lease
LeaveRefresh(t, how, q) ==
    /\ call' = [call EXCEPT ![t].pc = "r2_wait", ![t].refresh = how,
                            ![t].started = 0]
    /\ writer' = IF writer = t THEN NoTask ELSE writer
    /\ queue' = Append(q, t)

\* refresh_cache gets the write lease and the re-check finds the cache fresh:
\* it returns Ok without a fetch
RefreshSkip(t) ==
    /\ call[t].pc = "w_wait"
    /\ CanWrite(t)
    /\ RecheckFresh(cache)
    /\ LeaveRefresh(t, "skipped", Tail(queue))
    /\ obs' = [obs EXCEPT ![t].leases = @ + 1]
    /\ UNCHANGED << now, config, cache, call_count, fetched, any_failed >>
    /\ UNCHANGED query_vars

\* variant of FetchStart: the fetch runs outside the write lease, which is only
\* taken for the swap
FetchStart_OutsideLease(t) ==
    /\ call[t].pc = "w_wait"
    /\ CanWrite(t)
    /\ ~RecheckFresh(cache)
    /\ queue' = Tail(queue)
    /\ writer' = NoTask
    /\ call' = [call EXCEPT ![t].pc = "fetching", ![t].started = now]
    /\ call_count' = call_count + 1
    /\ obs' = [obs EXCEPT ![t].leases = @ + 1, ![t].fetches = @ + 1]
    /\ UNCHANGED << now, config, cache, fetched, any_failed >>
    /\ UNCHANGED query_vars

\* refresh_cache gets the write lease and the re-check fails:
\* list_containers_network_info is invoked under the timeout
FetchStart(t) ==
    /\ call[t].pc = "w_wait"
    /\ CanWrite(t)
    /\ ~RecheckFresh(cache)
    /\ queue' = Tail(queue)
    /\ writer' = t
    /\ call' = [call EXCEPT ![t].pc = "fetching", ![t].started = now]
    /\ call_count' = call_count + 1
    /\ obs' = [obs EXCEPT ![t].leases = @ + 1, ![t].fetches = @ + 1]
    /\ UNCHANGED << now, config, cache, fetched, any_failed >>
    /\ UNCHANGED query_vars

\* observers: a refresh by t replaced the mapping after u's own refresh had failed
NoteSwap(t) ==
    [u \in Tasks |->
        IF u # t /\ call[u].refresh \in {"error", "timeout"}
        THEN [obs[u] EXCEPT !.swapped = TRUE]
        ELSE obs[u]]

\* variant of FetchOk: the records are inserted into the mapping the cache holds
FetchOk_MergesIntoOld(t, network_infos) ==
    /\ call[t].pc = "fetching"
    /\ now - call[t].started <= config.refresh_timeout
    /\ cache' = [cache EXCEPT !.mappings = BuildFrom(cache.mappings, network_infos, 1)]
    /\ fetched' = Some(network_infos)
    /\ call' = [call EXCEPT ![t].pc = "stamping"]
    /\ obs' = [NoteSwap(t) EXCEPT ![t].pre = Some(cache)]
    /\ UNCHANGED << now, config, writer, queue, call_count, any_failed >>
    /\ UNCHANGED query_vars

\* the provider answers in time with the inventory it holds (any one: containers
\* start and stop at will): the mapping is built and assigned to cache.mappings
FetchOk(t, network_infos) ==
    /\ call[t].pc = "fetching"
    /\ now - call[t].started <= config.refresh_timeout
    /\ cache' = [cache EXCEPT !.mappings = BuildMappings(network_infos)]
    /\ fetched' = Some(network_infos)
    /\ call' = [call EXCEPT ![t].pc = "stamping"]
    /\ obs' = [NoteSwap(t) EXCEPT ![t].pre = Some(cache)]
    /\ UNCHANGED << now, config, writer, queue, call_count, any_failed >>
    /\ UNCHANGED query_vars

\* variant of StampRefresh: last_refresh is stamped with the time the fetch began
StampRefresh_StampsStart(t) ==
    /\ call[t].pc = "stamping"
    /\ cache' = [cache EXCEPT !.last_refresh = Some(call[t].started)]
    /\ LeaveRefresh(t, "ok", queue)
    /\ obs' = [obs EXCEPT ![t].pre = None]
    /\ UNCHANGED << now, config, call_count, fetched, any_failed >>
    /\ UNCHANGED query_vars

\* still under the write lease, last_refresh is stamped with Instant::now() and
\* refresh_cache returns Ok
StampRefresh(t) ==
    /\ call[t].pc = "stamping"
    /\ cache' = [cache EXCEPT !.last_refresh = Some(now)]
    /\ LeaveRefresh(t, "ok", queue)
    /\ obs' = [obs EXCEPT ![t].pre = None]
    /\ UNCHANGED << now, config, call_count, fetched, any_failed >>
    /\ UNCHANGED query_vars

\* variant of FetchErr: a failed attempt invalidates the cache's last_refresh
FetchErr_ClearsRefresh(t) ==
    /\ call[t].pc = "fetching"
    /\ now - call[t].started <= config.refresh_timeout
    /\ LeaveRefresh(t, "error", queue)
    /\ any_failed' = TRUE
    /\ cache' = [cache EXCEPT !.last_refresh = None]
    /\ obs' = [obs EXCEPT ![t].pre = Some(cache)]
    /\ UNCHANGED << now, config, call_count, fetched >>
    /\ UNCHANGED query_vars

\* variant of FetchErr: the failed attempt is recorded as a refresh
FetchErr_MarksRefresh(t) ==
    /\ call[t].pc = "fetching"
    /\ now - call[t].started <= config.refresh_timeout
    /\ LeaveRefresh(t, "error", queue)
    /\ any_failed' = TRUE
    /\ cache' = [cache EXCEPT !.last_refresh = Some(now)]
    /\ obs' = [obs EXCEPT ![t].pre = Some(cache)]
    /\ UNCHANGED << now, config, call_count, fetched >>
    /\ UNCHANGED query_vars

\* variant of FetchErr: after an error the provider is invoked again
FetchErr_Retries(t) ==
    /\ call[t].pc = "fetching"
    /\ now - call[t].started <= config.refresh_timeout
    /\ call_count' = call_count + 1
    /\ any_failed' = TRUE
    /\ obs' = [obs EXCEPT ![t].fetches = @ + 1]
    /\ UNCHANGED << now, config, cache, writer, queue, call, fetched >>
    /\ UNCHANGED query_vars

\* the provider answers with an error: `?` leaves refresh_cache
FetchErr(t) ==
    /\ call[t].pc = "fetching"
    /\ now - call[t].started <= config.refresh_timeout
    /\ LeaveRefresh(t, "error", queue)
    /\ any_failed' = TRUE
    /\ obs' = [obs EXCEPT ![t].pre = Some(cache)]
    /\ UNCHANGED << now, config, cache, call_count, fetched >>
    /\ UNCHANGED query_vars

\* tokio::time::timeout fires: the fetch is dropped, refresh_cache returns Err
FetchTimeout(t) ==
    /\ call[t].pc = "fetching"
    /\ now - call[t].started >= config.refresh_timeout
    /\ LeaveRefresh(t, "timeout", queue)
    /\ any_failed' = TRUE
    /\ obs' = [obs EXCEPT ![t].pre = Some(cache)]
    /\ UNCHANGED << now, config, cache, call_count, fetched >>
    /\ UNCHANGED query_vars

\* get_refreshed_cache_entry reads the entry under the read lease and returns
ReadRefreshed(t) ==
    /\ call[t].pc = "r2_wait"
    /\ CanRead(t)
    /\ queue' = Tail(queue)
    /\ call' = [call EXCEPT ![t] =
                  Returned(call[t].first, MapGet(cache.mappings, call[t].domain))]
    /\ obs' = [obs EXCEPT ![t] = IdleObs]
    /\ UNCHANGED << now, config, cache, writer, call_count, fetched,
                    any_failed >>
    /\ UNCHANGED query_vars

\* time passes
Tick ==
    /\ now < MaxTime
    /\ now' = now + 1
    /\ UNCHANGED << config, cache, writer, queue, call, call_count, fetched,
                    any_failed, obs >>
    /\ UNCHANGED query_vars

Next ==
    \/ \E t \in Tasks, d \in Domains : Resolve(t, d)
    \/ \E t \in Tasks : ReadCache(t)
    \/ \E t \in Tasks : RefreshSkip(t)
    \/ \E t \in Tasks : FetchStart(t)
    \/ \E t \in Tasks, inv \in Inventories : FetchOk(t, inv)
    \/ \E t \in Tasks : StampRefresh(t)
    \/ \E t \in Tasks : FetchErr(t)
    \/ \E t \in Tasks : FetchTimeout(t)
    \/ \E t \in Tasks : ReadRefreshed(t)
    \/ Tick

Spec == Init /\ [][Next]_vars

\* ---------------------------------------------------------------- progress
\* The timer of a fetch in flight has not fired yet.
TimerPending ==
    \E t \in Tasks :
        call[t].pc = "fetching" /\ now - call[t].started < config.refresh_timeout
\* The clock is followed up to MaxTime, and beyond it for as long as a timer runs.
ClockRuns == now < MaxTime \/ TimerPending

\* time passes
TickLive ==
    /\ ClockRuns
    /\ now' = now + 1
    /\ UNCHANGED << config, cache, writer, queue, call, call_count, fetched,
                    any_failed, obs >>
    /\ UNCHANGED query_vars

NextLive ==
    \/ \E t \in Tasks, d \in Domains : Resolve(t, d)
    \/ \E t \in Tasks : ReadCache(t)
    \/ \E t \in Tasks : RefreshSkip(t)
    \/ \E t \in Tasks : FetchStart(t)
    \/ \E t \in Tasks, inv \in Inventories : FetchOk(t, inv)
    \/ \E t \in Tasks : StampRefresh(t)
    \/ \E t \in Tasks : FetchErr(t)
    \/ \E t \in Tasks : FetchTimeout(t)
    \/ \E t \in Tasks : ReadRefreshed(t)
    \/ TickLive

\* The runtime polls every task that can run, the lock serves its queue in
\* order, the clock advances and a timer that is due fires.  Nothing is assumed
\* of the provider (FetchOk, FetchErr) nor of the callers (Resolve).
Fairness ==
    /\ \A t \in Tasks :
          /\ WF_vars(ReadCache(t))
          /\ WF_vars(RefreshSkip(t))
          /\ WF_vars(FetchStart(t))
          /\ WF_vars(StampRefresh(t))
          /\ WF_vars(FetchTimeout(t))
          /\ WF_vars(ReadRefreshed(t))
    /\ WF_vars(TickLive)

SpecLive == Init /\ [][NextLive]_vars /\ Fairness

\* ================================================================ the query path
\* One query, from the container list to the DNS response: the provider lists
\* the containers, a refresh builds the mapping, the handler answers.
\* ---------------------------------------------------------------- names
NameWeb == <<"w","e","b">>
NameDb == <<"d","b">>
NameBig == <<"b","i","g">>
NameNope == <<"n","o","p","e">>
SuffixDocker == <<".","d","o","c","k","e","r">>

\* ---------------------------------------------------------------- provider
\* bollard's ContainerSummary as far as the client reads it: names (absent, or
\* the names with their leading "/") and the endpoints of
\* network_settings.networks (absent, or a list), each with ip_address and
\* global_ipv6_address (absent, or a string: 0 is the empty string, n > 0 the
\* text of address n)
ContainerSummary(names, networks) == [names |-> names, networks |-> networks]
Endpoint(ip, ip6) == [ip_address |-> ip, global_ipv6_address |-> ip6]

\* strip_prefix_sane
StripPrefixSane(name, prefix) ==
    IF Len(prefix) <= Len(name) /\ SubSeq(name, 1, Len(prefix)) = prefix
    THEN SubSeq(name, Len(prefix) + 1, Len(name))
    ELSE name

\* get_names
GetNames(container) ==
    IF container.names = None THEN << >>
    ELSE [i \in 1..Len(Unwrap(container.names)) |->
             StripPrefixSane(Unwrap(container.names)[i], <<"/">>)]

\* parse_ipv4 / parse_ipv6: the empty string is no address
ParseIp(ip_str) == IF ip_str = 0 THEN None ELSE Some(ip_str)

\* the loop of get_ip_addresses over the endpoints, for one of the two fields
RECURSIVE CollectAddresses(_, _)
CollectAddresses(endpoints, field) ==
    IF endpoints = << >> THEN << >>
    ELSE LET ip == Head(endpoints)[field]
             parsed == IF ip = None THEN None ELSE ParseIp(Unwrap(ip))
         IN (IF parsed = None THEN << >> ELSE << Unwrap(parsed) >>)
                \o CollectAddresses(Tail(endpoints), field)

\* get_ip_addresses: the pair (ipv4_addresses, ipv6_addresses)
GetIpAddresses(container) ==
    IF container.networks = None THEN << << >>, << >> >>
    ELSE << CollectAddresses(Unwrap(container.networks), "ip_address"),
            CollectAddresses(Unwrap(container.networks), "global_ipv6_address") >>

\* variant of ListContainersNetworkInfo: every container is pushed
RECURSIVE ListContainersNetworkInfo_NoFilter(_)
ListContainersNetworkInfo_NoFilter(containers) ==
    IF containers = << >> THEN << >>
    ELSE LET names == GetNames(Head(containers))
             addresses == GetIpAddresses(Head(containers))
         IN << NetworkInfo(names, addresses[1], addresses[2]) >>
                \o ListContainersNetworkInfo_NoFilter(Tail(containers))

\* DockerClient::list_containers_network_info: a container with no address at
\* all is left out
RECURSIVE ListContainersNetworkInfo(_)
ListContainersNetworkInfo(containers) ==
    IF containers = << >> THEN << >>
    ELSE LET names == GetNames(Head(containers))
             addresses == GetIpAddresses(Head(containers))
         IN (IF addresses[1] # << >> \/ addresses[2] # << >>
             THEN << NetworkInfo(names, addresses[1], addresses[2]) >>
             ELSE << >>)
                \o ListContainersNetworkInfo(Tail(containers))

\* the two NetworkInfoProvider implementations of the crate: DockerClient over
\* the containers the daemon lists, and the test provider that returns its data
DockerClient(containers) == [kind |-> "DockerClient", lists |-> containers]
MockNetworkInfoProvider(data) == [kind |-> "Mock", lists |-> data]

\* provider.list_containers_network_info(), answering Ok
ProviderList(p) ==
    IF p.kind = "DockerClient" THEN ListContainersNetworkInfo(p.lists) ELSE p.lists

\* a container on MaxAddresses networks, with both addresses on each
BigNetworks == [i \in 1..MaxAddresses |-> Endpoint(Some(i), Some(i))]

Providers ==
    { DockerClient(<< >>),
      DockerClient(<< ContainerSummary(Some(<< <<"/">> \o NameWeb >>),
                                       Some(<< Endpoint(Some(1), Some(0)),
                                               Endpoint(Some(2), Some(7)) >>)),
                      ContainerSummary(Some(<< <<"/">> \o NameNope >>),
                                       Some(<< Endpoint(Some(0), Some(0)) >>)) >>),
      DockerClient(<< ContainerSummary(Some(<< <<"/">> \o NameDb >>),
                                       Some(<< Endpoint(None, Some(6)) >>)),
                      ContainerSummary(None, None) >>),
      DockerClient(<< ContainerSummary(Some(<< <<"/">> \o NameBig, <<"/">> \o NameWeb >>),
                                       Some(BigNetworks)) >>),
      MockNetworkInfoProvider(<< NetworkInfo(<< NameWeb >>, <<1>>, << >>),
                                 NetworkInfo(<< NameDb >>, << >>, << >>) >>) }

\* ---------------------------------------------------------------- handler
CustomHandler(suffix, ttl) == [suffix |-> suffix, ttl |-> ttl]
\* CustomHandler::new takes the suffix as it is given: main passes it with a
\* leading dot, a caller of the library may not
Handlers ==
    { CustomHandler(sfx, ttl) :
        sfx \in { << >>, SuffixDocker, Tail(SuffixDocker) }, ttl \in {0, 60} }

\* request_info.query: the name as the server hands it over (a LowerName: its
\* text is lower-case) and the query type
Query(query_name, query_type) == [query_name |-> query_name, query_type |-> query_type]
QueryNames ==
    { <<".">>,
      NameWeb, NameWeb \o <<".">>,
      NameWeb \o SuffixDocker \o <<".">>,
      NameDb \o <<".">>, NameDb \o SuffixDocker \o <<".">>,
      NameBig \o <<".">>, NameBig \o SuffixDocker \o <<".">>,
      NameNope \o <<".">>, NameNope \o SuffixDocker \o <<".">>,
      Tail(SuffixDocker) \o <<".">> }
RecordTypes == {"A", "AAAA", "MX"}
\* a Request: the header's message type and the query
Request(message_type, query) ==
    [message_type |-> message_type, query_name |-> query.query_name,
     query_type |-> query.query_type]
Requests ==
    { Request("Query", Query(n, ty)) : n \in QueryNames, ty \in RecordTypes }
        \cup { Request("Response", Query(n, "A")) :
                    n \in {NameWeb \o <<".">>, NameNope \o SuffixDocker \o <<".">>} }

\* Record::from_rdata(name, ttl, rdata)
Record(name, ttl, rr_type, rdata) ==
    [name |-> name, ttl |-> ttl, rr_type |-> rr_type, rdata |-> rdata]

\* variant of NormalizeDomain: one trailing dot is removed, as strip_suffix('.')
NormalizeDomain_OneDot(name) ==
    IF name # << >> /\ name[Len(name)] = "."
    THEN SubSeq(name, 1, Len(name) - 1)
    ELSE name

\* normalize_domain: trim_end_matches('.')
RECURSIVE NormalizeDomain(_)
NormalizeDomain(name) ==
    IF name # << >> /\ name[Len(name)] = "."
    THEN NormalizeDomain(SubSeq(name, 1, Len(name) - 1))
    ELSE name
\* LowerName::len(): the labels and one dot after each (1 for the root)
NameLen(query_name) == Len(NormalizeDomain(query_name)) + 1

\* str::ends_with
EndsWith(domain, suffix) ==
    /\ Len(suffix) <= Len(domain)
    /\ SubSeq(domain, Len(domain) - Len(suffix) + 1, Len(domain)) = suffix

\* variant of StripSuffix: a name outside the suffix is looked up as it is
StripSuffix_AcceptAll(suffix, domain) ==
    IF suffix = << >> THEN Some(domain)
    ELSE IF EndsWith(domain, suffix)
         THEN Some(SubSeq(domain, 1, Len(domain) - Len(suffix)))
         ELSE Some(domain)

\* CustomHandler::strip_suffix
StripSuffix(suffix, domain) ==
    IF suffix = << >> THEN Some(domain)
    ELSE IF EndsWith(domain, suffix)
         THEN Some(SubSeq(domain, 1, Len(domain) - Len(suffix)))
         ELSE None

\* the estimated size of a record in apply_size_limit
RecordSize(record) ==
    CASE record.rr_type = "A" -> 2 + 2 + 2 + 4 + 2 + 4
      [] record.rr_type = "AAAA" -> 2 + 2 + 2 + 4 + 2 + 16
      [] OTHER -> 0

\* usize::saturating_sub
SaturatingSub(a, b) == IF b > a THEN 0 ELSE a - b

\* variant of SizeLimitLoop: a record that fills the space exactly is dropped
RECURSIVE SizeLimitLoop_Inclusive(_, _, _, _)
SizeLimitLoop_Inclusive(records, available_space, current_size, result) ==
    IF records = << >> THEN result
    ELSE IF current_size + RecordSize(Head(records)) >= available_space
         THEN result
         ELSE SizeLimitLoop_Inclusive(Tail(records), available_space,
                 current_size + RecordSize(Head(records)),
                 Append(result, Head(records)))

\* the loop of apply_size_limit: records are pushed until one does not fit
RECURSIVE SizeLimitLoop(_, _, _, _)
SizeLimitLoop(records, available_space, current_size, result) ==
    IF records = << >> THEN result
    ELSE IF current_size + RecordSize(Head(records)) > available_space
         THEN result
         ELSE SizeLimitLoop(Tail(records), available_space,
                 current_size + RecordSize(Head(records)),
                 Append(result, Head(records)))

\* CustomHandler::apply_size_limit (domain is only logged)
ApplySizeLimit(records, domain, query_name_len) ==
    IF records = << >> THEN records
    ELSE SizeLimitLoop(records,
            SaturatingSub(DNS_UDP_MAX_SIZE, DNS_OVERHEAD_ESTIMATE + query_name_len),
            0, << >>)

\* variant of BuildRecords: both address families, whatever the query type
BuildRecords_BothFamilies(query, ttl, dns_response) ==
    [i \in 1..Len(dns_response.ipv4_addresses) |->
        Record(query.query_name, ttl, "A", dns_response.ipv4_addresses[i])]
    \o [i \in 1..Len(dns_response.ipv6_addresses) |->
        Record(query.query_name, ttl, "AAAA", dns_response.ipv6_addresses[i])]

\* the match on query_type in handle_query: the candidate records
BuildRecords(query, ttl, dns_response) ==
    CASE query.query_type = "A" ->
            [i \in 1..Len(dns_response.ipv4_addresses) |->
                Record(query.query_name, ttl, "A", dns_response.ipv4_addresses[i])]
      [] query.query_type = "AAAA" ->
            [i \in 1..Len(dns_response.ipv6_addresses) |->
                Record(query.query_name, ttl, "AAAA", dns_response.ipv6_addresses[i])]
      [] OTHER -> << >>

\* the response message: header fields and answer section
\* (Header::response_from_request: NoError, not authoritative)
Message(response_code, authoritative, answers) ==
    [response_code |-> response_code, authoritative |-> authoritative,
     answers |-> answers]

\* self.resolver.resolve(name) on a cache it does not refresh
ResolveCached(mappings, name) == MapGet(mappings, name)

\* variant of HandleQuery: the header of a positive answer is not marked authoritative
HandleQuery_NotAuthoritative(h, query, mappings) ==
    LET domain == NormalizeDomain(query.query_name)
        container_name == StripSuffix(h.suffix, domain)
        dns_response == ResolveCached(mappings, Unwrap(container_name))
    IN IF container_name = None THEN Message("Refused", FALSE, << >>)
       ELSE IF dns_response = None THEN Message("NXDomain", FALSE, << >>)
       ELSE Message("NoError", FALSE,
                ApplySizeLimit(BuildRecords(query, h.ttl, Unwrap(dns_response)),
                               domain, NameLen(query.query_name)))

\* CustomHandler::handle_query: the message it sends
HandleQuery(h, query, mappings) ==
    LET domain == NormalizeDomain(query.query_name)
        container_name == StripSuffix(h.suffix, domain)
        dns_response == ResolveCached(mappings, Unwrap(container_name))
    IN IF container_name = None THEN Message("Refused", FALSE, << >>)
       ELSE IF dns_response = None THEN Message("NXDomain", FALSE, << >>)
       ELSE Message("NoError", TRUE,
                ApplySizeLimit(BuildRecords(query, h.ttl, Unwrap(dns_response)),
                               domain, NameLen(query.query_name)))

\* a call of apply_size_limit on its own: a A records and b AAAA records, in
\* either order, and a name length
SizeLimitCall(records, query_name_len) ==
    [records |-> records, query_name_len |-> query_name_len]
RecordRun(rr_type, n) == [i \in 1..n |-> Record(NameWeb, 60, rr_type, i)]
NameLens == {1, 14, 255, 461, 462, 463, 600}
SizeLimitCalls ==
    { SizeLimitCall(RecordRun(ty[1], a) \o RecordRun(ty[2], b), len) :
        a \in {0, 1, 16, MaxAddresses - 1, MaxAddresses}, b \in {0, 1, 2},
        ty \in { <<"A", "AAAA">>, <<"AAAA", "A">> },
        len \in NameLens }

\* ---------------------------------------------------------------- Init
\* One request reaches a handler whose resolver is either new or was refreshed
\* by an earlier request at this instant.
InitQuery ==
    /\ now = 0
    /\ config = DockerResolverConfig(60, 5, 5)
    /\ writer = NoTask
    /\ queue = << >>
    /\ call = [t \in Tasks |-> IdleCall]
    /\ any_failed = FALSE
    /\ obs = [t \in Tasks |-> IdleObs]
    /\ response = None
    /\ events = << >>
    /\ \/ /\ provider \in Providers
          /\ handler \in Handlers
          /\ request \in Requests
          /\ \/ /\ cache = CachedNetworkData
                /\ call_count = 0
                /\ fetched = None
             \/ /\ cache = [mappings |-> BuildMappings(ProviderList(provider)),
                            last_refresh |-> Some(now)]
                /\ call_count = 1
                /\ fetched = Some(ProviderList(provider))
       \/ /\ provider = None
          /\ handler = None
          /\ request \in SizeLimitCalls
          /\ cache = CachedNetworkData
          /\ call_count = 0
          /\ fetched = None

\* ---------------------------------------------------------------- actions
\* the request is at the handler and nothing has been done for it
Received == provider # None /\ events = << >>
\* resolve has been called and waits for refresh_cache
Refreshing == provider # None /\ events = <<"resolve">>

\* variant of DropResponse: a message of type response is answered
DropResponse_Replies ==
    /\ Received
    /\ request.message_type = "Response"
    /\ response' = Some(Message("Refused", FALSE, << >>))
    /\ events' = Append(events, "send")
    /\ UNCHANGED << now, config, cache, writer, queue, call, call_count, fetched,
                    any_failed, obs, provider, handler, request >>

\* handle_request, MessageType::Response: logged and dropped, nothing is sent
DropResponse ==
    /\ Received
    /\ request.message_type = "Response"
    /\ events' = Append(events, "dropped")
    /\ UNCHANGED << now, config, cache, writer, queue, call, call_count, fetched,
                    any_failed, obs, provider, handler, request, response >>

\* handle_query, strip_suffix returns None: Refused is sent, the resolver is
\* not called
RefuseQuery ==
    /\ Received
    /\ request.message_type = "Query"
    /\ StripSuffix(handler.suffix, NormalizeDomain(request.query_name)) = None
    /\ response' = Some(HandleQuery(handler, request, cache.mappings))
    /\ events' = Append(events, "send")
    /\ UNCHANGED << now, config, cache, writer, queue, call, call_count, fetched,
                    any_failed, obs, provider, handler, request >>

\* variant of ResolveCall: resolve returns what the first read found
ResolveCall_ReturnsAtOnce ==
    /\ Received
    /\ request.message_type = "Query"
    /\ StripSuffix(handler.suffix, NormalizeDomain(request.query_name)) # None
    /\ events' = <<"resolve", "return">>
    /\ UNCHANGED << now, config, cache, writer, queue, call, call_count, fetched,
                    any_failed, obs, provider, handler, request, response >>

\* handle_query, strip_suffix returns Some(container_name): resolve is called.
\* resolve_async reads the cache (the only caller, no lease is contended) and
\* either returns what it read or goes on to refresh_cache.
ResolveCall ==
    /\ Received
    /\ request.message_type = "Query"
    /\ LET container_name ==
              StripSuffix(handler.suffix, NormalizeDomain(request.query_name))
       IN /\ container_name # None
          /\ events' =
                IF NeedsRefresh(MapGet(cache.mappings, Unwrap(container_name)),
                                IsOlderThan(cache, config.hit_timeout),
                                IsOlderThan(cache, config.miss_timeout))
                THEN <<"resolve">>
                ELSE <<"resolve", "return">>
    /\ UNCHANGED << now, config, cache, writer, queue, call, call_count, fetched,
                    any_failed, obs, provider, handler, request, response >>

\* refresh_cache for the resolve of the one query, the provider answering in
\* time: fetch, build, swap and stamp; the read that follows returns
RefreshCache ==
    /\ Refreshing
    /\ ~RecheckFresh(cache)
    /\ call_count' = call_count + 1
    /\ fetched' = Some(ProviderList(provider))
    /\ cache' = [mappings |-> BuildMappings(ProviderList(provider)),
                 last_refresh |-> Some(now)]
    /\ events' = events \o <<"fetch", "return">>
    /\ UNCHANGED << now, config, writer, queue, call, any_failed, obs,
                    provider, handler, request, response >>

\* refresh_cache, the fetch ending in an error or the timeout: the cache stays,
\* the read that follows returns
RefreshFails ==
    /\ Refreshing
    /\ ~RecheckFresh(cache)
    /\ call_count' = call_count + 1
    /\ any_failed' = TRUE
    /\ events' = events \o <<"fetch_failed", "return">>
    /\ UNCHANGED << now, config, cache, writer, queue, call, fetched, obs,
                    provider, handler, request, response >>

\* handle_query after resolve has returned: the response is built from what
\* the resolver read and sent
SendResponse ==
    /\ provider # None
    /\ events # << >> /\ events[Len(events)] = "return"
    /\ response' = Some(HandleQuery(handler, request, cache.mappings))
    /\ events' = Append(events, "send")
    /\ UNCHANGED << now, config, cache, writer, queue, call, call_count, fetched,
                    any_failed, obs, provider, handler, request >>

\* apply_size_limit called on its own arguments
ApplySizeLimitCall ==
    /\ request \in SizeLimitCalls
    /\ response = None
    /\ response' = Some(ApplySizeLimit(request.records, NameWeb, request.query_name_len))
    /\ UNCHANGED << now, config, cache, writer, queue, call, call_count, fetched,
                    any_failed, obs, provider, handler, request, events >>

NextQuery ==
    \/ DropResponse
    \/ RefuseQuery
    \/ ResolveCall
    \/ RefreshCache
    \/ RefreshFails
    \/ SendResponse
    \/ ApplySizeLimitCall

SpecQuery == InitQuery /\ [][NextQuery]_vars

\* ---------------------------------------------------------------- properties
Failed == {"error", "timeout"}
MissLeHit == config.miss_timeout <= config.hit_timeout
Fetching == {t \in Tasks : call[t].pc = "fetching"}
Alone(t) == \A u \in Tasks \ {t} : call[u].pc = "idle"
CeilDiv(a, b) == (a + b - 1) \div b

\* the age of cache c on the clock
Age(c) == now - Unwrap(c.last_refresh)
\* cache c was refreshed and is at most `duration` old
NoOlderThan(c, duration) == c.last_refresh # None /\ Age(c) <= duration

\* steps of task t
ReadsFirst(t) == call[t].pc = "r1_wait" /\ call'[t].pc # "r1_wait"
ReturnsFirst(t) == call[t].pc = "r1_wait" /\ call'[t].pc = "done"
ReturnsRefreshed(t) == call[t].pc = "r2_wait" /\ call'[t].pc = "done"
Returns(t) == ReturnsFirst(t) \/ ReturnsRefreshed(t)
LeavesRefresh(t) ==
    call[t].pc \in {"w_wait", "fetching", "stamping"} /\ call'[t].pc = "r2_wait"

\* the address lists of response r are those of record rec
SameAddresses(r, rec) ==
    /\ r.ipv4_addresses = rec.ipv4_addresses
    /\ r.ipv6_addresses = rec.ipv6_addresses

\* the records of infos that list name n, and the last of them
Listing(infos, n) ==
    {i \in 1..Len(infos) : \E j \in 1..Len(infos[i].names) : infos[i].names[j] = n}
LastListing(infos, n) ==
    CHOOSE i \in Listing(infos, n) : \A j \in Listing(infos, n) : j <= i

\* C1: starting from an empty cache, the resolve calls in progress, all begun
\* before any fetch, cause at most one invocation of the provider in total.
\* Stated for the burst itself: no time has passed since the calls began, and
\* miss_timeout is not zero.
C1_StormOneFetch ==
    (/\ \A t \in Tasks : call[t].pc # "idle" => InCall(t) /\ obs[t].c0 = 0
     /\ now = 0 /\ config.miss_timeout > 0)
        => call_count <= 1

\* C2: at most one provider fetch is in flight, and it runs under the write
\* lease, so a caller that needs a refresh waits for the running one to end.
C2_OneFetchInFlight ==
    /\ Cardinality(Fetching) <= 1
    /\ \A t \in Fetching : writer = t
    /\ (writer # NoTask => call[writer].pc \in {"fetching", "stamping"})

C2_Witness ==
    \E t, u \in Tasks : call[t].pc = "fetching" /\ call[u].pc = "w_wait"

\* C3: with 0 < miss_timeout <= hit_timeout, the provider has been invoked at
\* most ceil(T / miss_timeout) + 1 times after an elapsed time T.
C3_FetchRate ==
    (MissLeHit /\ config.miss_timeout > 0)
        => call_count <= CeilDiv(now, config.miss_timeout) + 1

\* C4 (as claimed): a failed refresh leaves the cache as it was, and the call
\* that triggered it returns the entry of its name in that unchanged mapping.
C4_ReturnsUnchangedEntry ==
    [][\A t \in Tasks :
        (ReturnsRefreshed(t) /\ call[t].refresh \in Failed)
            => call'[t].result = MapGet(Unwrap(obs[t].pre).mappings, call[t].domain)]_vars

\* C4 (amended): a refresh that fails, by a provider error or by the timeout,
\* leaves mapping and last_refresh exactly as they were; the call goes on to
\* its cache read and returns the entry of its name in the mapping as it is
\* at that read: the unchanged mapping unless another caller's refresh
\* replaced the cache in between.
C4_FailureKeepsCache ==
    [][\A t \in Tasks :
        /\ (call[t].pc = "fetching" /\ call'[t].refresh \in Failed)
              => cache' = cache /\ call'[t].pc = "r2_wait"
        /\ (call[t].pc = "r2_wait" /\ call[t].refresh \in Failed /\ ~obs[t].swapped)
              => cache = Unwrap(obs[t].pre)
        /\ (ReturnsRefreshed(t) /\ call[t].refresh \in Failed)
              => call'[t].result =
                    IF obs[t].swapped
                    THEN MapGet(cache.mappings, call[t].domain)
                    ELSE MapGet(Unwrap(obs[t].pre).mappings, call[t].domain)]_vars

C4_Witness ==
    \E t \in Tasks :
        /\ call[t].pc = "done" /\ call[t].result = None
        /\ any_failed /\ cache.last_refresh = None

\* C5 (as claimed): with miss_timeout <= hit_timeout and no failed fetch, the
\* cache is at most hit_timeout old at the read whose response resolve returns.
C5_ReturnedAgeBound ==
    [][\A t \in Tasks :
        (Returns(t) /\ call'[t].result # None /\ MissLeHit /\ ~any_failed)
            => NoOlderThan(cache, config.hit_timeout)]_vars

\* C5 (amended): with miss_timeout <= hit_timeout, the cache is at most
\* hit_timeout old when a response is returned straight from the first read,
\* and when refresh_cache returns Ok (by the re-check or after a fetch); the
\* read that follows refresh_cache tests no age.
C5_AgeBoundAtRefresh ==
    [][\A t \in Tasks :
        MissLeHit =>
            /\ (ReturnsFirst(t) /\ call'[t].result # None)
                  => NoOlderThan(cache, config.hit_timeout)
            /\ (LeavesRefresh(t) /\ call'[t].refresh \notin Failed)
                  => NoOlderThan(cache', config.hit_timeout)]_vars

C5_Witness ==
    \E t \in Tasks :
        /\ call[t].pc = "done" /\ call[t].result # None
        /\ call[t].first \in {"found_stale", "missing_stale", "missing_old"}
        /\ MissLeHit /\ ~any_failed

\* what a call with no other call in progress, whose first read was classified
\* as one of `firsts`, does by the time it returns: one fetch, then the entry of
\* its name in the mapping as the refresh left it
OneFetchThenEntry(t, firsts) ==
    (call'[t].pc = "done" /\ call'[t].first \in firsts /\ InCall(t) /\ obs[t].solo)
        => /\ ReturnsRefreshed(t)
           /\ call_count = obs[t].c0 + 1
           /\ call[t].refresh \in {"ok"} \cup Failed
           /\ call'[t].result = MapGet(cache.mappings, call[t].domain)
           /\ (call[t].refresh = "ok"
                 => cache.mappings = BuildMappings(Unwrap(fetched)))

\* C6 (as claimed): a single resolve call that reads a cache older than
\* hit_timeout triggers exactly one fetch and returns the entry of its name
\* in the mapping as it is after that refresh.
C6_StaleRefetches ==
    [][\A t \in Tasks : OneFetchThenEntry(t, {"found_stale", "missing_stale"})]_vars

\* C6 (amended): the same, for configurations with miss_timeout <= hit_timeout.
C6_StaleRefetchesMissLeHit ==
    [][\A t \in Tasks :
        MissLeHit => OneFetchThenEntry(t, {"found_stale", "missing_stale"})]_vars

C6_Witness ==
    \E t \in Tasks :
        /\ call[t].pc = "done" /\ call[t].first = "found_stale" /\ Alone(t)
        /\ MissLeHit /\ call_count = 2

\* C7 (as claimed): a single resolve call for a name missing from a cache older
\* than miss_timeout but not hit_timeout triggers exactly one fetch and returns
\* the name's entry in the mapping that fetch produced.
C7_MissRefetchesAndRefreshes ==
    [][\A t \in Tasks :
        /\ OneFetchThenEntry(t, {"missing_old"})
        /\ (ReturnsRefreshed(t) /\ call[t].first = "missing_old" /\ obs[t].solo)
              => call[t].refresh = "ok"]_vars

\* C7 (amended): such a call triggers exactly one fetch; when the fetch
\* succeeds it returns the name's entry in the mapping built from the fetched
\* inventory (a container that has appeared is returned), and when the fetch
\* fails it returns none.
C7_MissRefetches ==
    [][\A t \in Tasks :
        /\ OneFetchThenEntry(t, {"missing_old"})
        /\ (ReturnsRefreshed(t) /\ call[t].first = "missing_old" /\ obs[t].solo)
              => call'[t].result =
                    IF call[t].refresh = "ok"
                    THEN MapGet(BuildMappings(Unwrap(fetched)), call[t].domain)
                    ELSE None]_vars

C7_Witness ==
    \E t \in Tasks :
        /\ call[t].pc = "done" /\ call[t].first = "missing_old" /\ Alone(t)
        /\ call[t].result # None /\ call_count = 2

\* C8: a read that finds the name in a cache at most hit_timeout old returns
\* the cached response; no fetch is made and the cache is not changed.
C8_FreshHitReturns ==
    [][\A t \in Tasks :
        (ReadsFirst(t) /\ call[t].domain \in DOMAIN cache.mappings
                       /\ NoOlderThan(cache, config.hit_timeout))
            => /\ call'[t].pc = "done"
               /\ call'[t].result = Some(cache.mappings[call[t].domain])
               /\ call_count' = call_count
               /\ cache' = cache]_vars

C8_Witness ==
    \E t \in Tasks :
        /\ call[t].pc = "done" /\ call[t].first = "found"
        /\ call[t].result # None

\* C9: a read that does not find the name in a cache no older than
\* miss_timeout nor hit_timeout returns none; no fetch is made and the cache
\* is not changed.
C9_FreshMissReturnsNone ==
    [][\A t \in Tasks :
        (ReadsFirst(t) /\ call[t].domain \notin DOMAIN cache.mappings
                       /\ NoOlderThan(cache, config.miss_timeout)
                       /\ NoOlderThan(cache, config.hit_timeout))
            => /\ call'[t].pc = "done"
               /\ call'[t].result = None
               /\ call_count' = call_count
               /\ cache' = cache]_vars

C9_Witness ==
    \E t \in Tasks :
        /\ call[t].pc = "done" /\ call[t].first = "missing"
        /\ call[t].result = None /\ call_count > 0

\* C10 (as claimed): resolve(n) returns the address lists of every record of
\* the latest successful fetch that lists n, when that fetch is at most
\* hit_timeout old.
C10_EveryListingRecord ==
    [][\A t \in Tasks :
        (Returns(t) /\ NoOlderThan(cache, config.hit_timeout))
            => \A i \in Listing(Unwrap(fetched), call[t].domain) :
                  /\ call'[t].result # None
                  /\ SameAddresses(Unwrap(call'[t].result), Unwrap(fetched)[i])]_vars

\* C10 (amended): resolve(n) returns the address lists, in order, of the last
\* record of the latest successful fetch that lists n, when that fetch is at
\* most hit_timeout old.
C10_LastListingRecord ==
    [][\A t \in Tasks :
        (Returns(t) /\ NoOlderThan(cache, config.hit_timeout)
                    /\ Listing(Unwrap(fetched), call[t].domain) # {})
            => /\ call'[t].result # None
               /\ SameAddresses(Unwrap(call'[t].result),
                     Unwrap(fetched)[LastListing(Unwrap(fetched), call[t].domain)])]_vars

C10_Witness ==
    \E t \in Tasks :
        /\ call[t].pc = "done" /\ call[t].result # None
        /\ fetched # None /\ Len(Unwrap(fetched)) = 2
        /\ Unwrap(call[t].result).ipv4_addresses = <<3>>
        /\ NoOlderThan(cache, config.hit_timeout)

\* a cache read by task t: the first read of resolve_async, or the read of
\* get_refreshed_cache_entry
Reads(t) == ReadsFirst(t) \/ ReturnsRefreshed(t)
\* the tasks between the two assignments of a successful refresh
Stamping == {t \in Tasks : call[t].pc = "stamping"}

\* C11: every cache read observes the (mapping, last_refresh) pair as a whole
\* refresh left it: while a refresh is between its two assignments a read can
\* only see the pair that refresh found, and a mapping is never seen with the
\* last_refresh of the never-refreshed cache.
C11_ReadsWholePair ==
    [][\A t \in Tasks :
        Reads(t) =>
            /\ \A w \in Stamping : cache = Unwrap(obs[w].pre)
            /\ (cache.last_refresh = None => cache.mappings = EmptyMap)
            /\ (fetched # None => cache.mappings = BuildMappings(Unwrap(fetched)))]_vars

C11_Witness ==
    \E w, u \in Tasks :
        /\ call[w].pc = "stamping" /\ cache # Unwrap(obs[w].pre)
        /\ call[u].pc \in {"r1_wait", "r2_wait"}

\* C12: last_refresh, once set, is never reset to absent and never decreases,
\* whatever the refresh does (fetch and stamp, fail, or skip).
C12_LastRefreshAdvances ==
    [][cache.last_refresh # None =>
          /\ cache'.last_refresh # None
          /\ Unwrap(cache'.last_refresh) >= Unwrap(cache.last_refresh)]_vars

C12_Witness ==
    \E t \in Tasks :
        /\ call[t].pc = "r2_wait" /\ call[t].refresh \in Failed
        /\ obs[t].pre # None /\ Unwrap(obs[t].pre).last_refresh # None
        /\ cache.last_refresh # None /\ call_count = 2

\* ---------------------------------------------------------------- names
\* the upper-case letters of the names in use, and their lower-case forms
UpperCase == {"W", "D"}
ToLowerChar(c) == CASE c = "W" -> "w" [] c = "D" -> "d" [] OTHER -> c
ToLower(name) == [i \in 1..Len(name) |-> ToLowerChar(name[i])]
IsLower(name) == \A i \in 1..Len(name) : name[i] \notin UpperCase
EndsWithDot(name) == name # << >> /\ name[Len(name)] = "."
\* name without its trailing dots
RECURSIVE TrimDots(_)
TrimDots(name) ==
    IF EndsWithDot(name) THEN TrimDots(SubSeq(name, 1, Len(name) - 1)) ELSE name
\* the normal form of a name: lower case, no trailing dot
NormalForm(name) == TrimDots(ToLower(name))

\* C13: in every reachable cache state every key of the mapping is lower-case
\* and has no trailing dot.
C13_KeysNormalized ==
    \A k \in DOMAIN cache.mappings : IsLower(k) /\ ~EndsWithDot(k)

\* C15: resolve(x) returns what the lookup of the lower-cased, dot-trimmed form
\* of x returns in the cache it reads.
C15_ResolveNormalizes ==
    [][\A t \in Tasks :
        Returns(t) =>
            call'[t].result = MapGet(cache.mappings, NormalForm(call[t].domain))]_vars

\* ---------------------------------------------------------------- the query path
\* a query is being handled (not a call of apply_size_limit on its own)
IsQuery == provider # None
Answered == IsQuery /\ response # None
HasAddress(r) == r.ipv4_addresses # << >> \/ r.ipv6_addresses # << >>

\* the suffix rule on the normal form of the query name, and the lookup key
Accepted ==
    handler.suffix = << >> \/ EndsWith(NormalForm(request.query_name), handler.suffix)
LookupKey ==
    SubSeq(NormalForm(request.query_name), 1,
           Len(NormalForm(request.query_name)) - Len(handler.suffix))
\* what the resolver holds for the lookup key
Resolved == MapGet(cache.mappings, LookupKey)

\* the answer section the query type asks for: one record per address of the
\* family, in list order, under the question's name and the handler's ttl
ExpectedRecords ==
    LET r == Unwrap(Resolved)
    IN IF request.query_type = "A"
       THEN [i \in 1..Len(r.ipv4_addresses) |->
                [name |-> request.query_name, ttl |-> handler.ttl,
                 rr_type |-> "A", rdata |-> r.ipv4_addresses[i]]]
       ELSE IF request.query_type = "AAAA"
       THEN [i \in 1..Len(r.ipv6_addresses) |->
                [name |-> request.query_name, ttl |-> handler.ttl,
                 rr_type |-> "AAAA", rdata |-> r.ipv6_addresses[i]]]
       ELSE << >>

\* the size estimate: 16 per A record, 28 per AAAA record
RECURSIVE EstimatedSize(_)
EstimatedSize(records) ==
    IF records = << >> THEN 0
    ELSE (IF Head(records).rr_type = "A" THEN 16 ELSE 28) + EstimatedSize(Tail(records))
\* 512 - (50 + question_name_length), saturating at 0
Budget(name_len) == IF 50 + name_len >= 512 THEN 0 ELSE 512 - (50 + name_len)
\* the longest prefix of records whose estimated size is within the budget
LongestFittingPrefix(records, budget) ==
    LET fits == {k \in 0..Len(records) : EstimatedSize(SubSeq(records, 1, k)) <= budget}
        most == CHOOSE k \in fits : \A j \in fits : j <= k
    IN SubSeq(records, 1, most)

\* C14 (as claimed): every response the mapping references has at least one
\* address, and so has every response resolve returns, whatever the provider.
C14_EveryResponseHasAddress ==
    /\ \A k \in DOMAIN cache.mappings : HasAddress(cache.mappings[k])
    /\ \A n \in {NameWeb, NameDb, NameBig, NameNope} :
          ResolveCached(cache.mappings, n) # None
              => HasAddress(Unwrap(ResolveCached(cache.mappings, n)))

\* C14 (amended): the same when the provider is DockerClient, whose
\* list_containers_network_info leaves out a container with no address; the
\* resolver itself does not look at the address lists.
C14_DockerResponsesHaveAddress ==
    (IsQuery /\ provider.kind = "DockerClient") => C14_EveryResponseHasAddress

C14_Witness ==
    /\ IsQuery /\ provider.kind = "DockerClient"
    /\ \E i \in 1..Len(provider.lists) :
          /\ provider.lists[i].names # None
          /\ GetIpAddresses(provider.lists[i]) = << << >>, << >> >>
    /\ cache.last_refresh # None /\ cache.mappings # EmptyMap

\* C16: with a non-empty suffix, a query whose normalized name does not end
\* with the suffix is answered Refused, with no answers and AA false, whatever
\* the query type and the cache.
C16_OutsideSuffixRefused ==
    (Answered /\ handler.suffix # << >> /\ ~Accepted)
        => /\ Unwrap(response).response_code = "Refused"
           /\ Unwrap(response).answers = << >>
           /\ ~Unwrap(response).authoritative

C16_Witness ==
    /\ Answered /\ handler.suffix # << >> /\ ~Accepted
    /\ NormalForm(request.query_name) \in DOMAIN cache.mappings
    /\ request.query_type = "A"

\* C17: for an accepted name, NXDomain with AA false and no answers when the
\* resolver returns none, NoError with AA true when it returns a response, also
\* when the query type yields no record; the rcode is always one of NoError,
\* NXDomain, Refused.
C17_RcodeByLookup ==
    Answered =>
        /\ Unwrap(response).response_code \in {"NoError", "NXDomain", "Refused"}
        /\ (Accepted /\ Resolved = None)
              => /\ Unwrap(response).response_code = "NXDomain"
                 /\ ~Unwrap(response).authoritative
                 /\ Unwrap(response).answers = << >>
        /\ (Accepted /\ Resolved # None)
              => /\ Unwrap(response).response_code = "NoError"
                 /\ Unwrap(response).authoritative

C17_Witness ==
    /\ Answered /\ Accepted /\ Resolved # None
    /\ request.query_type = "A" /\ Unwrap(Resolved).ipv4_addresses = << >>
    /\ Unwrap(response).response_code = "NoError"
    /\ Unwrap(response).answers = << >>

\* C18: a query of a type other than A and AAAA, for an accepted name, is
\* answered NoError with no answers, also when the name does not resolve.
C18_OtherTypeNoError ==
    (Answered /\ Accepted /\ request.query_type \notin {"A", "AAAA"})
        => /\ Unwrap(response).response_code = "NoError"
           /\ Unwrap(response).answers = << >>

\* C19: for an accepted name that resolves, while the size budget is not
\* exceeded, the answers are one A record per IPv4 address (A query) or one
\* AAAA record per IPv6 address (AAAA query), in list order, none of the other
\* family, each under the question's name with the handler's ttl.
C19_AnswersPerFamily ==
    (Answered /\ Accepted /\ Resolved # None
        /\ request.query_type \in {"A", "AAAA"}
        /\ EstimatedSize(ExpectedRecords) <= Budget(NameLen(request.query_name)))
        => Unwrap(response).answers = ExpectedRecords

C19_Witness ==
    /\ Answered /\ Accepted /\ Resolved # None
    /\ request.query_type = "A"
    /\ Len(Unwrap(response).answers) = 2
    /\ Unwrap(Resolved).ipv6_addresses # << >>
    /\ handler.suffix # << >> /\ handler.ttl = 60

\* C20: apply_size_limit returns the longest prefix of the candidate records
\* whose estimated size is within 512 - (50 + name length), saturating at 0;
\* in a response the answers are that prefix of the records the query asks
\* for, and rcode and AA are those of the untruncated response.
C20_LongestFittingPrefix ==
    /\ (request \in SizeLimitCalls /\ response # None)
          => Unwrap(response) =
                LongestFittingPrefix(request.records, Budget(request.query_name_len))
    /\ (Answered /\ Accepted /\ Resolved # None)
          => /\ Unwrap(response).answers =
                    LongestFittingPrefix(ExpectedRecords,
                                         Budget(NameLen(request.query_name)))
             /\ Unwrap(response).response_code = "NoError"
             /\ Unwrap(response).authoritative

C20_Witness ==
    /\ Answered /\ Accepted /\ Resolved # None
    /\ request.query_type = "AAAA"
    /\ Unwrap(response).answers # << >>
    /\ Len(Unwrap(response).answers) < Len(Unwrap(Resolved).ipv6_addresses)

\* the handler's steps for the request
Has(e) == \E i \in 1..Len(events) : events[i] = e
Rcode == Unwrap(response).response_code
\* the runs of the handler for a message of type query
QueryRuns ==
    { <<"send">>,
      <<"resolve", "return", "send">>,
      <<"resolve", "fetch", "return", "send">>,
      <<"resolve", "fetch_failed", "return", "send">> }
IsPrefix(p, q) == Len(p) <= Len(q) /\ SubSeq(q, 1, Len(p)) = p

\* C21: with a non-empty suffix, a query whose normalized name is exactly the
\* suffix is refused, and the resolver is not consulted for it.
C21_ExactSuffixRefused ==
    (Answered /\ handler.suffix # << >>
        /\ NormalForm(request.query_name) = handler.suffix)
        => Rcode = "Refused" /\ ~Has("resolve")

\* C22 (as claimed): a query answered Refused or NXDomain has its response
\* sent without a provider fetch having been waited for since it arrived.
C22_NoFetchBeforeNegativeAnswer ==
    (Answered /\ Rcode \in {"Refused", "NXDomain"})
        => ~Has("fetch") /\ ~Has("fetch_failed")

\* C22 (amended): a Refused response is sent without the resolver being
\* consulted; an NXDomain response is sent after resolve has returned, and
\* resolve has returned without a fetch only when the cache it read had been
\* refreshed no longer than miss_timeout ago: otherwise the response has
\* waited for refresh_cache and its provider fetch.
C22_NegativeAnswerAfterResolve ==
    Answered =>
        /\ Rcode = "Refused" => events = <<"send">>
        /\ Rcode = "NXDomain" =>
              /\ Has("resolve") /\ Has("return")
              /\ ~(Has("fetch") \/ Has("fetch_failed"))
                    => NoOlderThan(cache, config.miss_timeout)
              /\ cache.last_refresh = None => Has("fetch_failed")

C22_Witness ==
    Answered /\ Rcode = "NXDomain" /\ Has("fetch") /\ Resolved = None

\* C23: for a message of type query the handler sends exactly one response,
\* and after the resolver has returned when it consults it; for a message of
\* type response it sends nothing and does not consult the resolver.
C23_OneResponsePerQuery ==
    IsQuery =>
        IF request.message_type = "Query"
        THEN /\ \E run \in QueryRuns : IsPrefix(events, run)
             /\ events \notin QueryRuns => ENABLED NextQuery
             /\ response # None <=> Has("send")
        ELSE /\ events \in { << >>, <<"dropped">> }
             /\ events = << >> => ENABLED NextQuery
             /\ response = None

C23_Witness ==
    /\ Answered /\ request.message_type = "Query"
    /\ events = <<"resolve", "fetch", "return", "send">>

\* strings normalize_domain and strip_suffix are applied to, beside the query
\* names: the empty string, dots only, two trailing dots, a dot inside
DomainStrings ==
    QueryNames \cup
        { << >>, <<".", ".">>, NameWeb \o <<".", ".">>,
          <<"a", ".", "b">>, <<"a", ".", "b", ".", ".">>, SuffixDocker }

\* C24: normalize_domain is idempotent; with a non-empty suffix S,
\* strip_suffix(L + S) = Some(L) for every non-empty L; with the empty suffix
\* strip_suffix(x) = Some(x) for every x.
C24_NormalizeAndStrip ==
    IsQuery =>
        \A x \in DomainStrings \cup {request.query_name} :
            /\ NormalizeDomain(NormalizeDomain(x)) = NormalizeDomain(x)
            /\ handler.suffix = << >> => StripSuffix(handler.suffix, x) = Some(x)
            /\ (handler.suffix # << >> /\ x # << >>)
                  => StripSuffix(handler.suffix, x \o handler.suffix) = Some(x)

C24_Witness ==
    /\ Answered /\ handler.suffix # << >>
    /\ EndsWithDot(request.query_name)
    /\ request.query_name = LookupKey \o handler.suffix \o <<".">>
    /\ LookupKey # << >> /\ Rcode = "NoError"

\* the names record i of infos lists, and those no later record lists
NamesOf(infos, i) == {infos[i].names[j] : j \in 1..Len(infos[i].names)}
OwnNames(infos, i) == {n \in NamesOf(infos, i) : LastListing(infos, n) = i}

\* C25: after a successful refresh, any two names of one inventory record that
\* no later record lists resolve to the same response: the same address lists,
\* held by the one response value built for that record.
C25_NamesShareResponse ==
    (IsQuery /\ cache.last_refresh # None) =>
        LET infos == Unwrap(fetched)
        IN \A i \in 1..Len(infos) : \A n1, n2 \in OwnNames(infos, i) :
              /\ ResolveCached(cache.mappings, n1) # None
              /\ ResolveCached(cache.mappings, n1) = ResolveCached(cache.mappings, n2)
              /\ SameAddresses(Unwrap(ResolveCached(cache.mappings, n1)), infos[i])
              /\ Unwrap(ResolveCached(cache.mappings, n1)).arc = i

C25_Witness ==
    /\ IsQuery /\ Has("fetch")
    /\ \E i \in 1..Len(Unwrap(fetched)) :
          {NameBig, NameWeb} \subseteq OwnNames(Unwrap(fetched), i)
    /\ ResolveCached(cache.mappings, NameBig) # None
    /\ ResolveCached(cache.mappings, NameBig) = ResolveCached(cache.mappings, NameWeb)

\* C26 (as claimed): no provider fetch is in flight while the write lease is
\* held.
C26_NoFetchUnderWriteLease ==
    Fetching # {} => writer = NoTask

\* C26 (amended): the write lease is taken before the fetch and held across
\* it, the mapping is replaced under that same lease, and no read lease is
\* granted while a fetch is in flight: a resolve that arrives during another
\* caller's fetch waits until that fetch has ended.
C26_ReadersWaitForFetch ==
    [][/\ \A t \in Tasks : call'[t].pc = "fetching" => writer' = t
       /\ \A u \in Tasks : (ReadsFirst(u) \/ ReturnsRefreshed(u)) => Fetching = {}
       /\ cache'.mappings # cache.mappings
             => writer \in Fetching /\ writer' = writer]_vars

C26_Witness ==
    \E t, u \in Tasks :
        /\ call[t].pc = "fetching" /\ writer = t /\ now > call[t].started
        /\ call[u].pc = "r1_wait" /\ Head(queue) = u

\* C27: after a successful refresh the mapping is the function built from the
\* returned records alone: its keys are the names the records list, each name
\* has the address lists of the last record that lists it, and nothing of the
\* previous mapping is left.
C27_MappingFromRecordsAlone ==
    fetched # None =>
        LET infos == Unwrap(fetched)
        IN /\ DOMAIN cache.mappings = UNION {NamesOf(infos, i) : i \in 1..Len(infos)}
           /\ \A n \in DOMAIN cache.mappings :
                 SameAddresses(cache.mappings[n], infos[LastListing(infos, n)])

C27_Witness ==
    \E t \in Tasks :
        /\ call[t].pc = "stamping" /\ obs[t].pre # None
        /\ \E n \in DOMAIN Unwrap(obs[t].pre).mappings :
              /\ n \notin DOMAIN cache.mappings
              /\ \E k \in DOMAIN cache.mappings : k # n

\* C29: one resolve call invokes the provider at most once and takes the write
\* lease at most once, whatever the fetch's outcome; every invocation of the
\* provider is the one fetch of a call that had made none.
C29_OneFetchPerCall ==
    [][/\ \A t \in Tasks : obs'[t].fetches <= 1 /\ obs'[t].leases <= 1
       /\ call_count' # call_count =>
             /\ call_count' = call_count + 1
             /\ \E t \in Tasks :
                   /\ InCall(t) /\ obs[t].fetches = 0 /\ obs'[t].fetches = 1
                   /\ obs[t].leases = 0 /\ obs'[t].leases = 1
       /\ \A t \in Tasks :
             (call[t].refresh \in Failed /\ InCall(t))
                => call'[t].pc \in {"r2_wait", "done"}]_vars

C29_Witness ==
    \E t \in Tasks :
        /\ call[t].pc = "r2_wait" /\ call[t].refresh \in Failed
        /\ obs[t].fetches = 1 /\ obs[t].leases = 1
        /\ cache.last_refresh = None

\* C28: every resolve call eventually returns, whatever the number of callers
\* and also when the provider never answers; the write lease is held by no
\* task that is outside refresh_cache.
C28_EveryCallReturns ==
    /\ \A t \in Tasks : InCall(t) ~> (call[t].pc = "done")
    /\ [](\A t \in Tasks : writer = t => call[t].pc \in {"fetching", "stamping"})

C28_Witness ==
    \E t, u \in Tasks :
        /\ call[t].pc = "r2_wait" /\ call[t].refresh = "timeout"
        /\ writer = NoTask /\ now > MaxTime
        /\ call[u].pc = "w_wait"

====
